---------------------------- MODULE Spec2Model ----------------------------
(***************************************************************************)
(* Student-to-option assignment (gsvance/geologic_periods).                *)
(*                                                                         *)
(* The module models                                                       *)
(*   - the mutable Matching of AssignStudentsNew.py (assign, erase, lock,  *)
(*     unlock and the bulk operations built from them) and the older       *)
(*     Matching of AlgorithmUtilities.py (add_pair, delete_pair, clear);   *)
(*   - the two scorers, score_assignment and                               *)
(*     ScoreCalculator.calculate_score;                                    *)
(*   - the staged search recursive_assignment_algorithm with its base      *)
(*     case, as a machine with an explicit stack of stage frames;          *)
(*   - the capacity validation of the two drivers.                         *)
(*                                                                         *)
(* Students are the integers 1..n_students in the order of the students    *)
(* list (the insertion order of by_student), options are 1..n_options in   *)
(* the order of the options list, and None is 0.  Python's assert          *)
(* statements are enabled (the scripts are run by plain python3).          *)
(***************************************************************************)
EXTENDS Integers, Sequences, FiniteSets, TLC

VARIABLES
    n_students,      \* len(students)
    n_options,       \* len(options)
    n_choices,       \* number of ranked choices of every student
    choices,         \* student -> sequence of n_choices distinct options
    high_priority,   \* student -> BOOLEAN
    min_per_option,
    max_per_option,
    impl,            \* which Matching class the object is an instance of
    by_student,      \* Matching.by_student : student -> option or None
    by_option,       \* Matching.by_option  : option -> set of students
    student_locked,  \* Matching.student_locked : student -> BOOLEAN
    call,            \* the operation performed by the last step
    raised,          \* the exception it raised, or "none"
    stack,           \* frames of recursive_assignment_algorithm
    ctl,             \* control point of the staged search
    scored,          \* results of the two scorers
    returned,        \* what the last query of the Matching returned, or the
                     \* locals of the last call of the base case
    driver,          \* which script is running
    pc_main          \* position of the driver script

inputVars == <<n_students, n_options, n_choices, choices, high_priority,
               min_per_option, max_per_option>>
matchVars == <<by_student, by_option, student_locked>>
vars == <<n_students, n_options, n_choices, choices, high_priority,
          min_per_option, max_per_option, impl, by_student, by_option,
          student_locked, call, raised, stack, ctl, scored, returned, driver,
          pc_main>>

---------------------------------------------------------------------------
(* Bounds of the model *)

MaxStudents == 2
MaxOptions == 2
MaxChoices == 2
MaxCap == 2
MaxRows == 26     \* students read by a driver (SpecMain)
MaxLines == 13    \* options read by a driver (SpecMain)

\* AssignStudents.py, "Parameters to test and constant conditions to enforce"
N_OPTIONS == 12
MIN_PER_OPTION == 1
MAX_PER_OPTION == 2

None == 0

NewImpl == "AssignStudentsNew.Matching"
OldImpl == "AlgorithmUtilities.Matching"

Students == 1 .. n_students
Options == 1 .. n_options

Min(a, b) == IF a <= b THEN a ELSE b

---------------------------------------------------------------------------
(* The Matching as a value, so that operations compose *)

Match == [by_student |-> by_student, by_option |-> by_option,
          student_locked |-> student_locked]

Ok(m) == [m |-> m, raised |-> "none"]
Raise(m, e) == [m |-> m, raised |-> e]

\* Matching.__init__
NewMatching(n, k) ==
    [by_student |-> [s \in 1 .. n |-> None],
     by_option |-> [o \in 1 .. k |-> {}],
     student_locked |-> [s \in 1 .. n |-> FALSE]]

is_matched(m, student) == m.by_student[student] # None
is_locked(m, student) == m.student_locked[student]
get_match(m, student) == m.by_student[student]

\* assign without its first assertion
assign_no_matched_check(m, student, option) ==
    IF student \notin DOMAIN m.by_student THEN Raise(m, "KeyError")
    ELSE IF is_locked(m, student) THEN Raise(m, "AssertionError")
    ELSE IF option \notin DOMAIN m.by_option THEN Raise(m, "KeyError")
    ELSE Ok([m EXCEPT !.by_option[option] = @ \cup {student},
                      !.by_student[student] = option])

\* assign without its second assertion
assign_no_lock_check(m, student, option) ==
    IF student \notin DOMAIN m.by_student THEN Raise(m, "KeyError")
    ELSE IF is_matched(m, student) THEN Raise(m, "AssertionError")
    ELSE IF option \notin DOMAIN m.by_option THEN Raise(m, "KeyError")
    ELSE Ok([m EXCEPT !.by_option[option] = @ \cup {student},
                      !.by_student[student] = option])

assign(m, student, option) ==
    IF student \notin DOMAIN m.by_student THEN Raise(m, "KeyError")
    ELSE IF is_matched(m, student) THEN Raise(m, "AssertionError")
    ELSE IF is_locked(m, student) THEN Raise(m, "AssertionError")
    ELSE IF option \notin DOMAIN m.by_option THEN Raise(m, "KeyError")
    ELSE Ok([m EXCEPT !.by_option[option] = @ \cup {student},
                      !.by_student[student] = option])

erase(m, student) ==
    IF student \notin DOMAIN m.by_student THEN Raise(m, "KeyError")
    ELSE IF ~is_matched(m, student) THEN Raise(m, "AssertionError")
    ELSE IF is_locked(m, student) THEN Raise(m, "AssertionError")
    ELSE IF student \notin m.by_option[m.by_student[student]]
         THEN Raise(m, "KeyError")
    ELSE Ok([m EXCEPT !.by_option[m.by_student[student]] = @ \ {student},
                      !.by_student[student] = None])

\* lock that sets the flag whatever its value was
lock_no_check(m, student) ==
    IF student \notin DOMAIN m.student_locked THEN Raise(m, "KeyError")
    ELSE Ok([m EXCEPT !.student_locked[student] = TRUE])

lock(m, student) ==
    IF student \notin DOMAIN m.student_locked THEN Raise(m, "KeyError")
    ELSE IF is_locked(m, student) THEN Raise(m, "AssertionError")
    ELSE Ok([m EXCEPT !.student_locked[student] = TRUE])

unlock(m, student) ==
    IF student \notin DOMAIN m.student_locked THEN Raise(m, "KeyError")
    ELSE IF ~is_locked(m, student) THEN Raise(m, "AssertionError")
    ELSE Ok([m EXCEPT !.student_locked[student] = FALSE])

\* for student, option in student_option_pairs: self.assign(student, option)
RECURSIVE assign_pairs(_, _)
assign_pairs(m, student_option_pairs) ==
    IF student_option_pairs = <<>> THEN Ok(m)
    ELSE LET r == assign(m, Head(student_option_pairs)[1],
                            Head(student_option_pairs)[2])
         IN  IF r.raised # "none" THEN r
             ELSE assign_pairs(r.m, Tail(student_option_pairs))

\* for student in students: self.erase(student)
RECURSIVE erase_many(_, _)
erase_many(m, students) ==
    IF students = <<>> THEN Ok(m)
    ELSE LET r == erase(m, Head(students))
         IN  IF r.raised # "none" THEN r ELSE erase_many(r.m, Tail(students))

\* the loop of erase_all from the i-th key of by_student on
RECURSIVE erase_all_from(_, _)
erase_all_from(m, i) ==
    IF i \notin DOMAIN m.by_student THEN Ok(m)
    ELSE IF is_matched(m, i)
         THEN LET r == erase(m, i)
              IN  IF r.raised # "none" THEN r ELSE erase_all_from(r.m, i + 1)
         ELSE erase_all_from(m, i + 1)

erase_all(m) == erase_all_from(m, 1)

\* for student in students: self.unlock(student)
RECURSIVE unlock_many(_, _)
unlock_many(m, students) ==
    IF students = <<>> THEN Ok(m)
    ELSE LET r == unlock(m, Head(students))
         IN  IF r.raised # "none" THEN r ELSE unlock_many(r.m, Tail(students))

\* lock_all_matched that reports the students and locks none of them
RECURSIVE lock_all_matched_from_no_lock(_, _, _)
lock_all_matched_from_no_lock(m, i, were_locked) ==
    IF i \notin DOMAIN m.by_student
    THEN [m |-> m, raised |-> "none", val |-> were_locked]
    ELSE IF is_matched(m, i) /\ ~is_locked(m, i)
         THEN lock_all_matched_from_no_lock(m, i + 1, Append(were_locked, i))
         ELSE lock_all_matched_from_no_lock(m, i + 1, were_locked)

\* the loop of lock_all_matched from the i-th key on; val is were_locked
RECURSIVE lock_all_matched_from(_, _, _)
lock_all_matched_from(m, i, were_locked) ==
    IF i \notin DOMAIN m.by_student
    THEN [m |-> m, raised |-> "none", val |-> were_locked]
    ELSE IF is_matched(m, i) /\ ~is_locked(m, i)
         THEN LET r == lock(m, i)
              IN  IF r.raised # "none"
                  THEN [m |-> r.m, raised |-> r.raised, val |-> were_locked]
                  ELSE lock_all_matched_from(r.m, i + 1,
                                             Append(were_locked, i))
         ELSE lock_all_matched_from(m, i + 1, were_locked)

lock_all_matched(m) == lock_all_matched_from(m, 1, <<>>)

---------------------------------------------------------------------------
(* The older Matching of AlgorithmUtilities.py.  Its add_pair and          *)
(* delete_pair take the student and the option in either order; a name is  *)
(* a pair <<kind, id>> so that student and option names are distinct.      *)

StudentName(s) == <<"student", s>>
OptionName(o) == <<"option", o>>

InByOption(m, u) == u[1] = "option" /\ u[2] \in DOMAIN m.by_option
InByStudent(m, u) == u[1] = "student" /\ u[2] \in DOMAIN m.by_student

\* add_pair without the test that the student is unmatched
add_pair_no_check(m, u, v) ==
    IF ~((InByOption(m, u) /\ InByStudent(m, v))
         \/ (InByOption(m, v) /\ InByStudent(m, u)))
    THEN Raise(m, "KeyError")
    ELSE LET option == IF InByOption(m, u) THEN u[2] ELSE v[2]
             student == IF InByOption(m, u) THEN v[2] ELSE u[2]
         IN  Ok([m EXCEPT !.by_option[option] = @ \cup {student},
                          !.by_student[student] = option])

add_pair(m, u, v) ==
    IF ~((InByOption(m, u) /\ InByStudent(m, v))
         \/ (InByOption(m, v) /\ InByStudent(m, u)))
    THEN Raise(m, "KeyError")
    ELSE LET option == IF InByOption(m, u) THEN u[2] ELSE v[2]
             student == IF InByOption(m, u) THEN v[2] ELSE u[2]
         IN  IF m.by_student[student] = None
             THEN Ok([m EXCEPT !.by_option[option] = @ \cup {student},
                               !.by_student[student] = option])
             ELSE Raise(m, "ValueError")

delete_pair(m, u, v) ==
    IF ~((InByOption(m, u) /\ InByStudent(m, v))
         \/ (InByOption(m, v) /\ InByStudent(m, u)))
    THEN Raise(m, "KeyError")
    ELSE LET option == IF InByOption(m, u) THEN u[2] ELSE v[2]
             student == IF InByOption(m, u) THEN v[2] ELSE u[2]
         IN  IF m.by_student[student] = option
             THEN Ok([m EXCEPT !.by_option[option] = @ \ {student},
                               !.by_student[student] = None])
             ELSE Raise(m, "ValueError")

clear(m) ==
    Ok([m EXCEPT !.by_student = [s \in DOMAIN m.by_student |-> None],
                 !.by_option = [o \in DOMAIN m.by_option |-> {}]])

---------------------------------------------------------------------------
(* The scorers *)

\* for i in range(1, n_choices + 1): if student.get_choice(i) == assigned
\* ... break: the first rank at which picks holds assigned, or None
RECURSIVE FirstRank(_, _, _)
FirstRank(picks, assigned, i) ==
    IF i > Len(picks) THEN None
    ELSE IF picks[i] = assigned THEN i
    ELSE FirstRank(picks, assigned, i + 1)

\* the body of score_assignment's loop with the priority test dropped
RECURSIVE score_loop_hp_always(_, _, _, _, _, _)
score_loop_hp_always(m, chs, hp, K, s, score) ==
    IF s \notin DOMAIN m.by_student THEN score
    ELSE LET i == FirstRank(chs[s], get_match(m, s), 1)
         IN  IF i = None
             THEN score_loop_hp_always(m, chs, hp, K, s + 1, score)
             ELSE score_loop_hp_always(m, chs, hp, K, s + 1,
                      [score EXCEPT ![1] = @ + 1, ![1 + i] = @ + 1,
                                    ![1 + K + i] = @ + 1])

\* the loop of score_assignment from student s on
RECURSIVE score_loop(_, _, _, _, _, _)
score_loop(m, chs, hp, K, s, score) ==
    IF s \notin DOMAIN m.by_student THEN score
    ELSE LET i == FirstRank(chs[s], get_match(m, s), 1)
         IN  IF i = None THEN score_loop(m, chs, hp, K, s + 1, score)
             ELSE score_loop(m, chs, hp, K, s + 1,
                      [score EXCEPT ![1] = @ + 1, ![1 + i] = @ + 1,
                                    ![1 + K + i] = IF hp[s] THEN @ + 1 ELSE @])

\* score_assignment: the tuple is 1-indexed here, score[0] is position 1
score_assignment(m, chs, hp, K) ==
    score_loop(m, chs, hp, K, 1, [j \in 1 .. (1 + 2 * K) |-> 0])

\* Matching.lookup of AlgorithmUtilities.py, for a student
lookup(m, name) == m.by_student[name]

\* the loop of calculate_score that leaves score[0] at the number of
\* students whatever they hold
RECURSIVE calculate_loop_counts_all(_, _, _, _, _, _)
calculate_loop_counts_all(m, chs, hp, K, s, score) ==
    IF s \notin DOMAIN m.by_student THEN [raised |-> "none", val |-> score]
    ELSE IF lookup(m, s) = None THEN [raised |-> "ValueError", val |-> <<>>]
    ELSE LET rank == FirstRank(chs[s], lookup(m, s), 1)
         IN  IF rank # None
             THEN calculate_loop_counts_all(m, chs, hp, K, s + 1,
                      [score EXCEPT ![1 + rank] = @ + 1,
                                    ![1 + K + rank] = IF hp[s] THEN @ + 1 ELSE @])
             ELSE calculate_loop_counts_all(m, chs, hp, K, s + 1, score)

\* the loop of calculate_score from student s on
RECURSIVE calculate_loop(_, _, _, _, _, _)
calculate_loop(m, chs, hp, K, s, score) ==
    IF s \notin DOMAIN m.by_student THEN [raised |-> "none", val |-> score]
    ELSE IF lookup(m, s) = None THEN [raised |-> "ValueError", val |-> <<>>]
    ELSE LET rank == FirstRank(chs[s], lookup(m, s), 1)
         IN  IF rank # None
             THEN calculate_loop(m, chs, hp, K, s + 1,
                      [score EXCEPT ![1 + rank] = @ + 1,
                                    ![1 + K + rank] = IF hp[s] THEN @ + 1 ELSE @])
             ELSE calculate_loop(m, chs, hp, K, s + 1,
                      [score EXCEPT ![1] = @ - 1])

\* ScoreCalculator.calculate_score
calculate_score(m, chs, hp, K) ==
    calculate_loop(m, chs, hp, K, 1,
        [j \in 1 .. (1 + 2 * K) |->
            IF j = 1 THEN Cardinality(DOMAIN chs) ELSE 0])

---------------------------------------------------------------------------
(* Inputs *)

\* read_student_data: a choice list holds n_choices distinct options
ChoiceLists(K, k) ==
    {q \in [1 .. K -> 1 .. k] : \A i, j \in 1 .. K : i # j => q[i] # q[j]}

Inputs(maxN, maxK, maxC) ==
    /\ n_students \in 1 .. maxN
    /\ n_options \in 1 .. maxK
    /\ n_choices \in 1 .. Min(maxC, n_options)
    /\ choices \in [1 .. n_students -> ChoiceLists(n_choices, n_options)]
    /\ high_priority \in [1 .. n_students -> BOOLEAN]

NoInputs ==
    /\ n_choices = 0
    /\ choices = [s \in 1 .. n_students |-> <<>>]
    /\ high_priority = [s \in 1 .. n_students |-> FALSE]
    /\ min_per_option = 0
    /\ max_per_option = 0

NoCall == [op |-> "none", student |-> None, option |-> None]

NoReturn == [by |-> "none"]

Idle ==
    /\ stack = <<>>
    /\ ctl = [pc |-> "idle"]
    /\ scored = [by |-> "none"]
    /\ returned = NoReturn
    /\ driver = "none"
    /\ pc_main = "none"

SetMatch(m) ==
    /\ by_student' = m.by_student
    /\ by_option' = m.by_option
    /\ student_locked' = m.student_locked

---------------------------------------------------------------------------
(* Any sequence of operations on one Matching object *)

InitMatching ==
    /\ n_students \in 1 .. MaxStudents
    /\ n_options \in 1 .. MaxOptions
    /\ NoInputs
    /\ impl \in {NewImpl, OldImpl}
    /\ by_student = NewMatching(n_students, n_options).by_student
    /\ by_option = NewMatching(n_students, n_options).by_option
    /\ student_locked = NewMatching(n_students, n_options).student_locked
    /\ call = NoCall
    /\ raised = "none"
    /\ Idle

Performed(op, student, option, r) ==
    /\ SetMatch(r.m)
    /\ raised' = r.raised
    /\ call' = [op |-> op, student |-> student, option |-> option]
    /\ UNCHANGED <<inputVars, impl, stack, ctl, scored, returned, driver,
                   pc_main>>

\* the arguments include a name that is no key and, for the option, None
Assign ==
    /\ impl = NewImpl
    /\ \E s \in 1 .. (n_students + 1), o \in 0 .. (n_options + 1) :
          Performed("assign", s, o, assign(Match, s, o))

Erase ==
    /\ impl = NewImpl
    /\ \E s \in 1 .. (n_students + 1) :
          Performed("erase", s, None, erase(Match, s))

AssignPairs ==
    /\ impl = NewImpl
    /\ \E s1, s2 \in Students, o1, o2 \in Options :
          Performed("assign_pairs", None, None,
                    assign_pairs(Match, <<<<s1, o1>>, <<s2, o2>>>>))

EraseMany ==
    /\ impl = NewImpl
    /\ \E s1, s2 \in Students :
          Performed("erase_many", None, None, erase_many(Match, <<s1, s2>>))

EraseAll ==
    /\ impl = NewImpl
    /\ Performed("erase_all", None, None, erase_all(Match))

Lock ==
    /\ impl = NewImpl
    /\ \E s \in 1 .. (n_students + 1) :
          Performed("lock", s, None, lock(Match, s))

Unlock ==
    /\ impl = NewImpl
    /\ \E s \in 1 .. (n_students + 1) :
          Performed("unlock", s, None, unlock(Match, s))

Names ==
    {StudentName(s) : s \in 1 .. (n_students + 1)}
        \cup {OptionName(o) : o \in 1 .. (n_options + 1)}

\* the student and the option of a call add_pair(u, v) or delete_pair(u, v)
StudentOf(u, v) == IF u[1] = "student" THEN u[2]
                   ELSE IF v[1] = "student" THEN v[2] ELSE None
OptionOf(u, v) == IF u[1] = "option" THEN u[2]
                  ELSE IF v[1] = "option" THEN v[2] ELSE None

AddPair ==
    /\ impl = OldImpl
    /\ \E u, v \in Names :
          Performed("add_pair", StudentOf(u, v), OptionOf(u, v),
                    add_pair(Match, u, v))

DeletePair ==
    /\ impl = OldImpl
    /\ \E u, v \in Names :
          Performed("delete_pair", StudentOf(u, v), OptionOf(u, v),
                    delete_pair(Match, u, v))

Clear ==
    /\ impl = OldImpl
    /\ Performed("clear", None, None, clear(Match))

NextMatching ==
    \/ Assign
    \/ Erase
    \/ AssignPairs
    \/ EraseMany
    \/ EraseAll
    \/ Lock
    \/ Unlock
    \/ AddPair
    \/ DeletePair
    \/ Clear

SpecMatching == InitMatching /\ [][NextMatching]_vars

---------------------------------------------------------------------------
(* Properties of the Matching operations (SpecMatching) *)

\* C4: in every state reachable by any sequence of Matching operations,
\* failing ones included, a student is in at most one option's set and
\* by_student[s] = o exactly when s is a member of by_option[o].
C4_MapsAgree ==
    /\ \A s \in Students : \A o \in Options :
          (by_student[s] = o) <=> (s \in by_option[o])
    /\ \A s \in Students :
          Cardinality({o \in Options : s \in by_option[o]}) <= 1

\* a bulk assignment failed half way and left its first pair in place
C4_Witness ==
    /\ call.op = "assign_pairs"
    /\ raised = "AssertionError"
    /\ \E s \in Students : by_student[s] # None

MapsUnchanged == by_student' = by_student /\ by_option' = by_option

\* C5: assigning a student who is already assigned, or unassigning one who
\* is not (old Matching: deleting a pair that is not in the matching),
\* raises and leaves both maps as they were.
C5_MisuseFails ==
    [][/\ (/\ call'.op \in {"assign", "add_pair"}
           /\ call'.student \in Students
           /\ by_student[call'.student] # None)
          => (raised' # "none" /\ MapsUnchanged)
       /\ (/\ call'.op = "erase"
           /\ call'.student \in Students
           /\ by_student[call'.student] = None)
          => (raised' # "none" /\ MapsUnchanged)
       /\ (/\ call'.op = "delete_pair"
           /\ call'.student \in Students
           /\ call'.option \in Options
           /\ by_student[call'.student] # call'.option)
          => (raised' # "none" /\ MapsUnchanged)]_vars

\* add_pair was refused for a student who keeps the earlier option
C5_Witness ==
    /\ call.op = "add_pair"
    /\ raised = "ValueError"
    /\ call.student \in Students
    /\ call.option \in Options
    /\ by_student[call.student] \notin {None, call.option}

\* C6: unlock of a student who is not locked and lock of a locked student
\* fail and leave the lock map unchanged; lock of an unlocked student and
\* unlock of a locked one succeed and flip that student's flag only.
C6_LockDiscipline ==
    [][/\ (call'.op = "lock" /\ call'.student \in Students)
          => IF student_locked[call'.student]
             THEN raised' = "AssertionError"
                  /\ student_locked' = student_locked
             ELSE raised' = "none"
                  /\ student_locked' =
                        [student_locked EXCEPT ![call'.student] = TRUE]
       /\ (call'.op = "unlock" /\ call'.student \in Students)
          => IF student_locked[call'.student]
             THEN raised' = "none"
                  /\ student_locked' =
                        [student_locked EXCEPT ![call'.student] = FALSE]
             ELSE raised' = "AssertionError"
                  /\ student_locked' = student_locked
       /\ call'.op \in {"lock", "unlock"} => MapsUnchanged]_vars

\* a second lock of the same student was refused
C6_Witness ==
    /\ call.op = "lock"
    /\ raised = "AssertionError"
    /\ call.student \in Students
    /\ student_locked[call.student]

\* C7: while a student is locked every assign or erase of that student
\* fails, and no operation changes the student's entry in by_student or the
\* student's membership in by_option.
C7_LockedIsFrozen ==
    [][\A s \in Students :
          student_locked[s] =>
             /\ by_student'[s] = by_student[s]
             /\ \A o \in Options : (s \in by_option'[o]) <=> (s \in by_option[o])
             /\ (call'.op \in {"assign", "erase"} /\ call'.student = s)
                   => raised' # "none"]_vars

\* erase of a locked, assigned student was refused
C7_Witness ==
    /\ call.op = "erase"
    /\ raised = "AssertionError"
    /\ call.student \in Students
    /\ student_locked[call.student]
    /\ by_student[call.student] # None

---------------------------------------------------------------------------
(* The scorers applied to any assignment, complete or not (SpecScore) *)

\* the inverse map of a by_student map
ByOptionOf(bs, k) == [o \in 1 .. k |-> {s \in DOMAIN bs : bs[s] = o}]

InitScore ==
    /\ Inputs(MaxStudents, MaxOptions, MaxChoices)
    /\ min_per_option = 0
    /\ max_per_option = 0
    /\ impl \in {NewImpl, OldImpl}
    /\ by_student \in [1 .. n_students -> 0 .. n_options]
    /\ by_option = ByOptionOf(by_student, n_options)
    /\ student_locked = [s \in 1 .. n_students |-> FALSE]
    /\ call = NoCall
    /\ raised = "none"
    /\ Idle

ScoreAssignment ==
    /\ impl = NewImpl
    /\ scored' = [by |-> "score_assignment", raised |-> "none",
                  val |-> score_assignment(Match, choices, high_priority,
                                           n_choices)]
    /\ UNCHANGED <<inputVars, impl, matchVars, call, raised, stack, ctl,
                   returned, driver, pc_main>>

CalculateScore ==
    /\ impl = OldImpl
    /\ LET r == calculate_score(Match, choices, high_priority, n_choices)
       IN  scored' = [by |-> "calculate_score", raised |-> r.raised,
                      val |-> r.val]
    /\ UNCHANGED <<inputVars, impl, matchVars, call, raised, stack, ctl,
                   returned, driver, pc_main>>

NextScore ==
    \/ ScoreAssignment
    \/ CalculateScore

SpecScore == InitScore /\ [][NextScore]_vars

\* the rank of the option bs[s] among the choices of student s, None when
\* it is none of them
RankOf(bs, s) ==
    IF \E i \in 1 .. n_choices : choices[s][i] = bs[s]
    THEN CHOOSE i \in 1 .. n_choices :
            /\ choices[s][i] = bs[s]
            /\ \A j \in 1 .. (i - 1) : choices[s][j] # bs[s]
    ELSE None

\* the score vector of the assignment bs as the counts it is said to hold
VectorOf(bs) ==
    [j \in 1 .. (1 + 2 * n_choices) |->
        IF j = 1 THEN Cardinality({s \in Students : RankOf(bs, s) # None})
        ELSE IF j <= 1 + n_choices
             THEN Cardinality({s \in Students : RankOf(bs, s) = j - 1})
             ELSE Cardinality({s \in Students :
                     RankOf(bs, s) = j - 1 - n_choices /\ high_priority[s]})]

RankHeld(s) == RankOf(by_student, s)
CountVector == VectorOf(by_student)

\* C8: score_assignment returns [happy_count, count_choice_1..K,
\* hp_count_choice_1..K]: a student holding the choice of rank i counts in
\* happy_count and count_choice_i, and in hp_count_choice_i when high
\* priority; a student holding none of the choices counts nowhere.
C8_ScoreVector ==
    scored.by = "score_assignment" => scored.val = CountVector

\* a high priority student holds the second choice, another student holds
\* the first
C8_Witness ==
    /\ scored.by = "score_assignment"
    /\ \E s, t \in Students :
          /\ high_priority[s] /\ RankHeld(s) = 2
          /\ ~high_priority[t] /\ RankHeld(t) = 1
    /\ scored.val[1] >= 2

\* C9: scoring an assignment with an unassigned student raises, whichever
\* scorer is used.
C9_IncompleteFails ==
    (scored.by # "none" /\ \E s \in Students : by_student[s] = None)
        => scored.raised # "none"

\* every student holds an option
Complete == \A s \in Students : by_student[s] \in Options

\* C28: on a complete assignment of the same students, choice lists and
\* priority flags the two scorers return the same vector: what the scorer
\* that ran has returned is what ScoreCalculator.calculate_score and
\* score_assignment each give for that assignment.
C28_ScorersAgree ==
    (scored.by # "none" /\ Complete) =>
        /\ scored.raised = "none"
        /\ calculate_score(Match, choices, high_priority, n_choices).raised
               = "none"
        /\ scored.val
               = calculate_score(Match, choices, high_priority, n_choices).val
        /\ scored.val
               = score_assignment(Match, choices, high_priority, n_choices)

\* the old scorer has scored a complete assignment in which a student
\* holds an option that is not on their list and a high-priority student
\* holds one that is
C28_Witness ==
    /\ scored.by = "calculate_score"
    /\ Complete
    /\ \E s, t \in Students :
          /\ RankHeld(s) = None
          /\ high_priority[t] /\ RankHeld(t) # None
    /\ scored.val[1] < n_students

---------------------------------------------------------------------------
(* The capacity validation of the two drivers (SpecMain) *)

NewDriver == "AssignStudentsNew.py"
OldDriver == "AssignStudents.py"

Floor(n, k) == n \div k
Ceil(n, k) == (n + k - 1) \div k

\* the two assertions of main() before the Matching is built
NewSanityChecks(n, k, lo, hi) ==
    IF ~(lo * k <= n) THEN "AssertionError"
    ELSE IF ~(hi * k >= n) THEN "AssertionError"
    ELSE "none"

\* the module-level sanity checks with the minimum left out
OldSanityChecks_no_min(n, k) ==
    IF k # N_OPTIONS THEN "AssertionError"
    ELSE IF ~(N_OPTIONS * MAX_PER_OPTION >= n) THEN "AssertionError"
    ELSE "none"

\* the module-level sanity checks of AssignStudents.py on the counts
OldSanityChecks(n, k) ==
    IF k # N_OPTIONS THEN "AssertionError"
    ELSE IF ~(N_OPTIONS * MIN_PER_OPTION <= n) THEN "AssertionError"
    ELSE IF ~(N_OPTIONS * MAX_PER_OPTION >= n) THEN "AssertionError"
    ELSE "none"

InitMain ==
    /\ driver \in {NewDriver, OldDriver}
    /\ pc_main = "read"
    /\ n_students \in 0 .. MaxRows
    /\ n_options \in 0 .. MaxLines
    /\ n_choices = 0
    /\ choices = <<>>
    /\ high_priority = <<>>
    /\ min_per_option = IF driver = OldDriver THEN MIN_PER_OPTION ELSE None
    /\ max_per_option = IF driver = OldDriver THEN MAX_PER_OPTION ELSE None
    /\ impl = IF driver = OldDriver THEN OldImpl ELSE NewImpl
    /\ by_student = <<>>
    /\ by_option = <<>>
    /\ student_locked = <<>>
    /\ call = NoCall
    /\ raised = "none"
    /\ stack = <<>>
    /\ ctl = [pc |-> "idle"]
    /\ scored = [by |-> "none"]
    /\ returned = NoReturn

mainFrame == <<n_students, n_options, n_choices, choices, high_priority,
               impl, call, stack, scored, returned, driver>>

\* main(): min_per_option and max_per_option from the counts
NewMainCounts ==
    /\ driver = NewDriver
    /\ pc_main = "read"
    /\ IF n_options = 0
       THEN /\ raised' = "ZeroDivisionError"
            /\ pc_main' = "abort"
            /\ UNCHANGED <<min_per_option, max_per_option>>
       ELSE /\ min_per_option' = Floor(n_students, n_options)
            /\ max_per_option' = Ceil(n_students, n_options)
            /\ pc_main' = "counted"
            /\ UNCHANGED raised
    /\ UNCHANGED <<mainFrame, matchVars, ctl>>

\* main(): the assertions, then the Matching is set up
NewMainChecks ==
    /\ driver = NewDriver
    /\ pc_main = "counted"
    /\ LET e == NewSanityChecks(n_students, n_options, min_per_option,
                                max_per_option)
       IN  /\ raised' = e
           /\ pc_main' = IF e = "none" THEN "validated" ELSE "abort"
    /\ UNCHANGED <<mainFrame, matchVars, ctl, min_per_option, max_per_option>>

\* main(): the call of recursive_assignment_algorithm
NewMainSearch ==
    /\ driver = NewDriver
    /\ pc_main = "validated"
    /\ pc_main' = "search"
    /\ ctl' = [pc |-> "entered"]
    /\ UNCHANGED <<mainFrame, matchVars, raised, min_per_option,
                   max_per_option>>

\* AssignStudents.py: the sanity checks on the data read
OldChecks ==
    /\ driver = OldDriver
    /\ pc_main = "read"
    /\ LET e == OldSanityChecks(n_students, n_options)
       IN  /\ raised' = e
           /\ pc_main' = IF e = "none" THEN "validated" ELSE "abort"
    /\ UNCHANGED <<mainFrame, matchVars, ctl, min_per_option, max_per_option>>

\* AssignStudents.py: the while loop over all_permitted_matchings is entered
OldSearch ==
    /\ driver = OldDriver
    /\ pc_main = "validated"
    /\ pc_main' = "search"
    /\ ctl' = [pc |-> "entered"]
    /\ UNCHANGED <<mainFrame, matchVars, raised, min_per_option,
                   max_per_option>>

NextMain ==
    \/ NewMainCounts
    \/ NewMainChecks
    \/ NewMainSearch
    \/ OldChecks
    \/ OldSearch

SpecMain == InitMain /\ [][NextMain]_vars

Unsatisfiable ==
    \/ min_per_option * n_options > n_students
    \/ max_per_option * n_options < n_students

\* C10: a run whose counts make the capacity bounds unsatisfiable aborts
\* with an error and never enters the search: once the driver is past its
\* checks, unsatisfiable bounds mean that it stopped with an exception.
C10_AbortsBeforeSearch ==
    (pc_main \notin {"read", "counted"} /\ Unsatisfiable)
        => (pc_main = "abort" /\ raised # "none" /\ ctl.pc = "idle")

\* the old driver read 12 options and too few students for a minimum of 1
C10_Witness ==
    /\ driver = OldDriver
    /\ n_options = N_OPTIONS
    /\ n_students < N_OPTIONS * MIN_PER_OPTION
    /\ pc_main = "abort"
    /\ raised = "AssertionError"

---------------------------------------------------------------------------
(* Helpers of the staged search *)

\* a set of students as the list in which by_student.keys() yields them
RECURSIVE InOrder(_)
InOrder(S) ==
    IF S = {} THEN <<>>
    ELSE LET x == CHOOSE y \in S : \A z \in S : y <= z
         IN  <<x>> \o InOrder(S \ {x})

\* x repeated n times
RECURSIVE Repeat(_, _)
Repeat(x, n) == IF n <= 0 THEN <<>> ELSE <<x>> \o Repeat(x, n - 1)

\* the outcomes of random.shuffle on a list
Shuffles(list) ==
    {[i \in 1 .. Len(list) |-> list[p[i]]] :
        p \in {q \in [1 .. Len(list) -> 1 .. Len(list)] :
                  \A i, j \in 1 .. Len(list) : i # j => q[i] # q[j]}}

\* tuple comparison a > b of Python
RECURSIVE TupleGreater(_, _)
TupleGreater(a, b) ==
    IF a = <<>> THEN FALSE
    ELSE IF b = <<>> THEN TRUE
    ELSE IF Head(a) # Head(b) THEN Head(a) > Head(b)
    ELSE TupleGreater(Tail(a), Tail(b))

get_n_unmatched(m) ==
    Cardinality({s \in DOMAIN m.by_student : ~is_matched(m, s)})

list_unmatched_students(m) ==
    InOrder({s \in DOMAIN m.by_student : ~is_matched(m, s)})

\* the key loop of reduce_to_pairs from student i on
RECURSIVE reduce_to_pairs_from(_, _, _)
reduce_to_pairs_from(m, i, pairs) ==
    IF i \notin DOMAIN m.by_student
    THEN [raised |-> "none", val |-> pairs]
    ELSE IF ~is_matched(m, i) THEN [raised |-> "AssertionError", val |-> <<>>]
    ELSE reduce_to_pairs_from(m, i + 1,
                              Append(pairs, <<i, m.by_student[i]>>))

reduce_to_pairs(m) == reduce_to_pairs_from(m, 1, <<>>)

\* the options are yielded in the order of by_option.keys()
list_overfilled_options(m, threshold) ==
    InOrder({o \in DOMAIN m.by_option :
                Cardinality(m.by_option[o]) > threshold})

\* itertools.combinations(pool, r): the r-length tuples of elements of the
\* list pool, in the order of pool
RECURSIVE combinations(_, _)
combinations(pool, r) ==
    IF r = 0 THEN <<<<>>>>
    ELSE IF Len(pool) < r THEN <<>>
    ELSE LET rest == combinations(Tail(pool), r - 1)
         IN  [i \in 1 .. Len(rest) |-> <<Head(pool)>> \o rest[i]]
                 \o combinations(Tail(pool), r)

\* make_trim_iterable that removes one student too few
make_trim_iterable_one_short(m, option, threshold) ==
    LET n_assigned == Cardinality(m.by_option[option])
        removable == InOrder({s \in m.by_option[option] : ~is_locked(m, s)})
    IN  IF ~(n_assigned > threshold)
        THEN [raised |-> "AssertionError", val |-> <<>>]
        ELSE [raised |-> "none",
              val |-> combinations(removable, n_assigned - threshold - 1)]

\* make_trim_iterable that draws from every student of the option
make_trim_iterable_with_locked(m, option, threshold) ==
    LET n_assigned == Cardinality(m.by_option[option])
        removable == InOrder(m.by_option[option])
    IN  IF ~(n_assigned > threshold)
        THEN [raised |-> "AssertionError", val |-> <<>>]
        ELSE [raised |-> "none",
              val |-> combinations(removable, n_assigned - threshold)]

\* the combinations of (n_assigned - threshold) unlocked students of the
\* option.  The set by_option[option] yields its students in an order that
\* is not fixed; the order only permutes the combinations and the students
\* within one, so the list removable is taken in the order of the names.
make_trim_iterable(m, option, threshold) ==
    LET n_assigned == Cardinality(m.by_option[option])
        removable == InOrder({s \in m.by_option[option] : ~is_locked(m, s)})
    IN  IF ~(n_assigned > threshold)
        THEN [raised |-> "AssertionError", val |-> <<>>]
        ELSE [raised |-> "none",
              val |-> combinations(removable, n_assigned - threshold)]

\* the students of a combination
Group(combination) == {combination[i] : i \in DOMAIN combination}

\* lines 242-256: it.product of one trim iterable per overfilled option; a
\* trim maps every overfilled option to the group of students to remove.
\* With no overfilled option the code calls it.repeat(tuple(), n=1), and
\* itertools.repeat has no keyword n (its count is "times"): TypeError.
trim_product(m, threshold) ==
    LET overfilled == list_overfilled_options(m, threshold)
        options == {overfilled[i] : i \in DOMAIN overfilled}
    IN  IF Len(overfilled) > 0
        THEN [raised |-> "none",
              val |-> {t \in [options -> SUBSET (DOMAIN m.by_student)] :
                          \A o \in options :
                              \E i \in DOMAIN make_trim_iterable(m, o, threshold).val :
                                  t[o] = Group(make_trim_iterable(m, o, threshold).val[i])}]
        ELSE [raised |-> "TypeError", val |-> {}]

\* list_underfilled_options that names an underfilled option once only
RECURSIVE list_underfilled_from_once(_, _, _)
list_underfilled_from_once(m, threshold, o) ==
    IF o \notin DOMAIN m.by_option THEN <<>>
    ELSE (IF Cardinality(m.by_option[o]) < threshold
          THEN <<o>>
          ELSE <<>>) \o list_underfilled_from_once(m, threshold, o + 1)

\* the key loop of list_underfilled_options from option o on
RECURSIVE list_underfilled_from(_, _, _)
list_underfilled_from(m, threshold, o) ==
    IF o \notin DOMAIN m.by_option THEN <<>>
    ELSE (IF Cardinality(m.by_option[o]) < threshold
          THEN Repeat(o, threshold - Cardinality(m.by_option[o]))
          ELSE <<>>) \o list_underfilled_from(m, threshold, o + 1)

list_underfilled_options(m, threshold) == list_underfilled_from(m, threshold, 1)

\* list_empty_spots that offers a spot on a full option too
RECURSIVE list_empty_from_full_too(_, _, _, _)
list_empty_from_full_too(m, low_threshold, high_threshold, o) ==
    IF o \notin DOMAIN m.by_option THEN <<>>
    ELSE (IF low_threshold <= Cardinality(m.by_option[o])
          THEN Repeat(o, IF Cardinality(m.by_option[o]) < high_threshold
                         THEN high_threshold - Cardinality(m.by_option[o])
                         ELSE 1)
          ELSE <<>>)
             \o list_empty_from_full_too(m, low_threshold, high_threshold,
                                         o + 1)

\* list_empty_spots that offers one spot more than the headroom
RECURSIVE list_empty_from_one_more(_, _, _, _)
list_empty_from_one_more(m, low_threshold, high_threshold, o) ==
    IF o \notin DOMAIN m.by_option THEN <<>>
    ELSE (IF /\ low_threshold <= Cardinality(m.by_option[o])
             /\ Cardinality(m.by_option[o]) <= high_threshold
          THEN Repeat(o, high_threshold - Cardinality(m.by_option[o]) + 1)
          ELSE <<>>)
             \o list_empty_from_one_more(m, low_threshold, high_threshold,
                                         o + 1)

\* the key loop of list_empty_spots from option o on
RECURSIVE list_empty_from(_, _, _, _)
list_empty_from(m, low_threshold, high_threshold, o) ==
    IF o \notin DOMAIN m.by_option THEN <<>>
    ELSE (IF /\ low_threshold <= Cardinality(m.by_option[o])
             /\ Cardinality(m.by_option[o]) < high_threshold
          THEN Repeat(o, high_threshold - Cardinality(m.by_option[o]))
          ELSE <<>>) \o list_empty_from(m, low_threshold, high_threshold, o + 1)

list_empty_spots(m, low_threshold, high_threshold) ==
    list_empty_from(m, low_threshold, high_threshold, 1)

---------------------------------------------------------------------------
(* The base case of the staged search *)

NoResult == [pairs |-> <<>>, score |-> <<>>]     \* (None, None)

Failed(m, e) == [m |-> m, raised |-> e, val |-> NoResult]

\* lines 350-359: happiness[name], "n_choices - i + 1" for the first rank i
\* at which the student's list holds the option assigned, 0 if there is none
happiness(m, chs, K, s) ==
    LET i == FirstRank(chs[s], get_match(m, s), 1)
    IN  IF i = None THEN 0 ELSE K - i + 1

\* find_more_unhappy_students: the happiness and priority of every student
\* are computed without effect; then the loop over the options calls
\* match.list_students_by_option, which class Matching does not define
\* (its method is list_students_for_option), so the first iteration raises.
find_more_unhappy_students(m) ==
    IF DOMAIN m.by_option = {}
    THEN [raised |-> "none", val |-> <<>>]
    ELSE [raised |-> "AttributeError", val |-> <<>>]

\* the eviction loop of the base case from its i-th iteration on; val is
\* the list of (student, option) pairs that replace the queue's entries
RECURSIVE evict(_, _, _, _, _)
evict(m, unhappy_queue, i, count, evicted) ==
    IF i > count THEN [m |-> m, raised |-> "none", val |-> evicted]
    ELSE IF i > Len(unhappy_queue)
         THEN [m |-> m, raised |-> "IndexError", val |-> evicted]
    ELSE LET u == unlock(m, unhappy_queue[i])
         IN  IF u.raised # "none"
             THEN [m |-> u.m, raised |-> u.raised, val |-> evicted]
             ELSE LET e == erase(u.m, unhappy_queue[i])
                  IN  IF e.raised # "none"
                      THEN [m |-> e.m, raised |-> e.raised, val |-> evicted]
                      ELSE evict(e.m, unhappy_queue, i + 1, count,
                               Append(evicted,
                                  <<unhappy_queue[i],
                                    get_match(u.m, unhappy_queue[i])>>))

\* for i, option in enumerate(underfilled): match.assign(unhappy[i], option)
RECURSIVE fill_underfilled(_, _, _, _)
fill_underfilled(m, unhappy, underfilled, i) ==
    IF i > Len(underfilled) THEN Ok(m)
    ELSE IF i > Len(unhappy) THEN Raise(m, "IndexError")
    ELSE LET r == assign(m, unhappy[i], underfilled[i])
         IN  IF r.raised # "none" THEN r
             ELSE fill_underfilled(r.m, unhappy, underfilled, i + 1)

\* for i in range(len(underfilled), len(unhappy)):
\*     match.assign(unhappy[i], empty_spots[i - len(underfilled)])
RECURSIVE fill_empty_spots(_, _, _, _, _)
fill_empty_spots(m, unhappy, empty_spots, n_underfilled, i) ==
    IF i > Len(unhappy) THEN Ok(m)
    ELSE IF i - n_underfilled > Len(empty_spots) THEN Raise(m, "IndexError")
    ELSE LET r == assign(m, unhappy[i], empty_spots[i - n_underfilled])
         IN  IF r.raised # "none" THEN r
             ELSE fill_empty_spots(r.m, unhappy, empty_spots, n_underfilled,
                                   i + 1)

\* the loop that restores the evicted students and locks them again
RECURSIVE restore_evicted(_, _)
restore_evicted(m, evicted) ==
    IF evicted = <<>> THEN Ok(m)
    ELSE LET a == assign(m, Head(evicted)[1], Head(evicted)[2])
         IN  IF a.raised # "none" THEN a
             ELSE LET l == lock(a.m, Head(evicted)[1])
                  IN  IF l.raised # "none" THEN l
                      ELSE restore_evicted(l.m, Tail(evicted))

\* the end of the base case: score, snapshot, undo (lines 327-344)
base_case_finish(filled, unhappy, evicted, chs, hp, K) ==
    IF filled.raised # "none" THEN Failed(filled.m, filled.raised)
    ELSE LET score == score_assignment(filled.m, chs, hp, K)
             pairs == reduce_to_pairs(filled.m)
         IN  IF pairs.raised # "none" THEN Failed(filled.m, pairs.raised)
             ELSE LET e == erase_many(filled.m, unhappy)
                  IN  IF e.raised # "none" THEN Failed(e.m, e.raised)
                      ELSE LET r == restore_evicted(e.m, evicted)
                           IN  IF r.raised # "none"
                               THEN Failed(r.m, r.raised)
                               ELSE [m |-> r.m, raised |-> "none",
                                     val |-> [pairs |-> pairs.val,
                                              score |-> score]]

\* an outcome r of the base case with the locals it had computed when it
\* returned or raised: the list of under-minimum slots, the evicted
\* outcome of the call of find_more_unhappy_students (if it was called), the
\* evicted (student, option) pairs, the shuffled unhappy students, the
\* shuffled headroom slots (empty when line 321 was not reached) and
\* by_student as it was scored (or as the exception left it)
WithLocals(r, underfilled, queue, evicted, unhappy, empty_spots, filled) ==
    [m |-> r.m, raised |-> r.raised, val |-> r.val,
     underfilled |-> underfilled, queue |-> queue,
     evicted |-> evicted, unhappy |-> unhappy,
     empty_spots |-> empty_spots, filled |-> filled.by_student]

\* the base case from "unhappy = match.list_unmatched_students()" on, for
\* one outcome of the first shuffle; the set ranges over the second shuffle
base_case_fill(m, unhappy, underfilled, queue, evicted, chs, hp, K, lo, hi) ==
    LET first == fill_underfilled(m, unhappy, underfilled, 1)
    IN  IF first.raised # "none"
        THEN {WithLocals(Failed(first.m, first.raised), underfilled, queue,
                         evicted, unhappy, <<>>, first.m)}
        ELSE IF Len(unhappy) > Len(underfilled)
        THEN {LET rest == fill_empty_spots(first.m, unhappy, empty_spots,
                              Len(underfilled), Len(underfilled) + 1)
              IN  WithLocals(base_case_finish(rest, unhappy, evicted,
                                              chs, hp, K),
                             underfilled, queue, evicted, unhappy,
                             empty_spots, rest.m) :
                empty_spots \in Shuffles(list_empty_spots(first.m, lo, hi))}
        ELSE {WithLocals(base_case_finish(first, unhappy, evicted, chs, hp, K),
                         underfilled, queue, evicted, unhappy, <<>>, first.m)}

\* assignment_algorithm_base_case: the set of its outcomes over the shuffles
assignment_algorithm_base_case(m, chs, hp, K, lo, hi) ==
    LET n_unhappy == get_n_unmatched(m)
        underfilled == list_underfilled_options(m, lo)
        called == n_unhappy < Len(underfilled)
        found == find_more_unhappy_students(m)
        queue == IF called
                 THEN [called |-> TRUE, raised |-> found.raised,
                       val |-> found.val]
                 ELSE [called |-> FALSE, raised |-> "none", val |-> <<>>]
        ev == IF queue.raised # "none"
              THEN [m |-> m, raised |-> queue.raised, val |-> <<>>]
              ELSE IF n_unhappy < Len(underfilled)
              THEN evict(m, queue.val, 1, Len(underfilled) - n_unhappy, <<>>)
              ELSE [m |-> m, raised |-> "none", val |-> <<>>]
    IN  IF ev.raised # "none"
        THEN {WithLocals(Failed(ev.m, ev.raised), underfilled, queue,
                         ev.val, <<>>, <<>>, ev.m)}
        ELSE UNION {base_case_fill(ev.m, unhappy, underfilled, queue, ev.val,
                                   chs, hp, K, lo, hi) :
                      unhappy \in Shuffles(list_unmatched_students(ev.m))}

---------------------------------------------------------------------------
(* The staged search, recursive_assignment_algorithm, as a machine.  A     *)
(* frame of the stack is one active call at a stage <= n_choices; ctl.pc   *)
(* is "call" when a call is about to start, "loop" at the head of the loop *)
(* over the trims of the top frame, "ret" when a call has just returned    *)
(* ctl.val, "raised" when an exception left the search (nothing catches    *)
(* it) and "done" when main() has installed the result.  ctl.entry is the  *)
(* Matching as the call that just returned had received it.                *)

Ctl(pc, stage, val, entry) ==
    [pc |-> pc, stage |-> stage, val |-> val, entry |-> entry]

Top == stack[Len(stack)]
Pop == SubSeq(stack, 1, Len(stack) - 1)

\* the stage's assignments without the test "if not match.is_matched(...)"
RECURSIVE assign_stage_choices_all(_, _, _, _, _)
assign_stage_choices_all(m, chs, stage, s, assigned_students) ==
    IF s \notin DOMAIN m.by_student
    THEN [m |-> m, raised |-> "none", val |-> assigned_students]
    ELSE LET r == assign(m, s, chs[s][stage])
         IN  IF r.raised # "none"
             THEN [m |-> r.m, raised |-> r.raised, val |-> assigned_students]
             ELSE assign_stage_choices_all(r.m, chs, stage, s + 1,
                                           Append(assigned_students, s))

\* the loop "for student in students: if not match.is_matched(...)" from
\* student s on; val is assigned_students
RECURSIVE assign_stage_choices(_, _, _, _, _)
assign_stage_choices(m, chs, stage, s, assigned_students) ==
    IF s \notin DOMAIN m.by_student
    THEN [m |-> m, raised |-> "none", val |-> assigned_students]
    ELSE IF ~is_matched(m, s)
         THEN LET r == assign(m, s, chs[s][stage])
              IN  IF r.raised # "none"
                  THEN [m |-> r.m, raised |-> r.raised,
                        val |-> assigned_students]
                  ELSE assign_stage_choices(r.m, chs, stage, s + 1,
                                            Append(assigned_students, s))
         ELSE assign_stage_choices(m, chs, stage, s + 1, assigned_students)

\* the students of a trim, group by group in the order of the overfilled
\* options (the domain of the trim); within a group the order only permutes
\* saved_pairs
RECURSIVE trim_students(_, _)
trim_students(trim, overfilled) ==
    IF overfilled = <<>> THEN <<>>
    ELSE InOrder(trim[Head(overfilled)])
            \o trim_students(trim, Tail(overfilled))

\* the trimming loop that saves the pairings and erases none of them
RECURSIVE erase_trimmed_keeps(_, _, _)
erase_trimmed_keeps(m, students, saved_pairs) ==
    IF students = <<>>
    THEN [m |-> m, raised |-> "none", val |-> saved_pairs]
    ELSE erase_trimmed_keeps(m, Tail(students),
             Append(saved_pairs,
                    <<Head(students), get_match(m, Head(students))>>))

\* the loop that removes the trimmed pairings; val is saved_pairs
RECURSIVE erase_trimmed(_, _, _)
erase_trimmed(m, students, saved_pairs) ==
    IF students = <<>>
    THEN [m |-> m, raised |-> "none", val |-> saved_pairs]
    ELSE LET r == erase(m, Head(students))
         IN  IF r.raised # "none"
             THEN [m |-> r.m, raised |-> r.raised, val |-> saved_pairs]
             ELSE erase_trimmed(r.m, Tail(students),
                     Append(saved_pairs,
                            <<Head(students), get_match(m, Head(students))>>))

\* "if best_score is None or new_score > best_score": the best of the two
\* results; None > tuple is a TypeError
keep_best(best, new) ==
    IF best.score = <<>> THEN [raised |-> "none", val |-> new]
    ELSE IF new.score = <<>> THEN [raised |-> "TypeError", val |-> best]
    ELSE IF TupleGreater(new.score, best.score)
         THEN [raised |-> "none", val |-> new]
         ELSE [raised |-> "none", val |-> best]

\* the stage exit that leaves the stage's own assignments in place
stage_cleanup_skipped(m, assigned_students) == Ok(m)

\* "Clean up any assignments we made here before returning"
stage_cleanup(m, assigned_students) == erase_many(m, assigned_students)

\* a recursive call that stays at the stage of its caller
next_stage_same(stage) == stage

\* the stage argument of the recursive call, "stage + 1" (line 276)
next_stage(stage) == stage + 1

searchFrame == <<inputVars, impl, call, scored, returned, driver, pc_main>>

Raised(m, e) ==
    /\ SetMatch(m)
    /\ raised' = e
    /\ stack' = <<>>
    /\ ctl' = Ctl("raised", 0, NoResult, <<>>)

\* lines 235-259: the stage's assignments and its trims
StageEntry ==
    /\ ctl.pc = "call"
    /\ ctl.stage <= n_choices
    /\ LET a == assign_stage_choices(Match, choices, ctl.stage, 1, <<>>)
           p == trim_product(a.m, max_per_option)
       IN  IF a.raised # "none" THEN Raised(a.m, a.raised)
           ELSE IF p.raised # "none" THEN Raised(a.m, p.raised)
           ELSE /\ SetMatch(a.m)
                /\ stack' = Append(stack,
                      [stage |-> ctl.stage,
                       assigned_students |-> a.val,
                       todo |-> p.val,
                       saved_pairs |-> <<>>,
                       locked_students |-> <<>>,
                       best |-> NoResult,
                       entry |-> Match])
                /\ ctl' = Ctl("loop", ctl.stage, NoResult, <<>>)
                /\ UNCHANGED raised
    /\ UNCHANGED searchFrame

\* lines 262-276: take the next trim, remove its pairings, lock, recurse
TrimAndRecurse ==
    /\ ctl.pc = "loop"
    /\ \E trim \in Top.todo :
          LET e == erase_trimmed(Match,
                      trim_students(trim, InOrder(DOMAIN trim)), <<>>)
              l == lock_all_matched(e.m)
          IN  IF e.raised # "none" THEN Raised(e.m, e.raised)
              ELSE IF l.raised # "none" THEN Raised(l.m, l.raised)
              ELSE /\ SetMatch(l.m)
                   /\ stack' = [stack EXCEPT ![Len(stack)] =
                          [@ EXCEPT !.todo = @ \ {trim},
                                    !.saved_pairs = e.val,
                                    !.locked_students = l.val]]
                   /\ ctl' = Ctl("call", next_stage(Top.stage), NoResult,
                               <<>>)
                   /\ UNCHANGED raised
    /\ UNCHANGED searchFrame

\* lines 231-233 and 293-344: the base case, entered and left in one step
BaseCase ==
    /\ ctl.pc = "call"
    /\ ctl.stage > n_choices
    /\ \E r \in assignment_algorithm_base_case(Match, choices, high_priority,
                   n_choices, min_per_option, max_per_option) :
          /\ returned' = [by |-> "assignment_algorithm_base_case",
                          entry |-> by_student,
                          n_unhappy |-> get_n_unmatched(Match),
                          raised |-> r.raised, val |-> r.val,
                          underfilled |-> r.underfilled,
                          queue |-> r.queue,
                          evicted |-> r.evicted, unhappy |-> r.unhappy,
                          empty_spots |-> r.empty_spots,
                          filled |-> r.filled]
          /\ IF r.raised # "none" THEN Raised(r.m, r.raised)
             ELSE /\ SetMatch(r.m)
                  /\ ctl' = Ctl("ret", ctl.stage, r.val, Match)
                  /\ UNCHANGED <<raised, stack>>
    /\ UNCHANGED <<inputVars, impl, call, scored, driver, pc_main>>

\* lines 277-285: unlock, compare with the best so far, restore the trim
AfterRecursion ==
    /\ ctl.pc = "ret"
    /\ stack # <<>>
    /\ LET u == unlock_many(Match, Top.locked_students)
           b == keep_best(Top.best, ctl.val)
           a == assign_pairs(u.m, Top.saved_pairs)
       IN  IF u.raised # "none" THEN Raised(u.m, u.raised)
           ELSE IF b.raised # "none" THEN Raised(u.m, b.raised)
           ELSE IF a.raised # "none" THEN Raised(a.m, a.raised)
           ELSE /\ SetMatch(a.m)
                /\ stack' = [stack EXCEPT ![Len(stack)] =
                       [@ EXCEPT !.best = b.val,
                                 !.saved_pairs = <<>>,
                                 !.locked_students = <<>>]]
                /\ ctl' = Ctl("loop", Top.stage, NoResult, <<>>)
                /\ UNCHANGED raised
    /\ UNCHANGED searchFrame

\* lines 287-291: the trims are exhausted, undo the stage and return
StageExit ==
    /\ ctl.pc = "loop"
    /\ Top.todo = {}
    /\ LET e == stage_cleanup(Match, Top.assigned_students)
       IN  IF e.raised # "none" THEN Raised(e.m, e.raised)
           ELSE /\ SetMatch(e.m)
                /\ stack' = Pop
                /\ ctl' = Ctl("ret", Top.stage, Top.best, Top.entry)
                /\ UNCHANGED raised
    /\ UNCHANGED searchFrame

\* main(), lines 118-120: the best pairings are put into the Matching
MainInstall ==
    /\ ctl.pc = "ret"
    /\ stack = <<>>
    /\ LET e == erase_all(Match)
           a == assign_pairs(e.m, ctl.val.pairs)
       IN  IF e.raised # "none" THEN Raised(e.m, e.raised)
           ELSE IF a.raised # "none" THEN Raised(a.m, a.raised)
           ELSE /\ SetMatch(a.m)
                /\ ctl' = Ctl("done", 0, ctl.val, ctl.entry)
                /\ UNCHANGED <<raised, stack>>
    /\ UNCHANGED searchFrame

\* main(), lines 111-116: a new Matching, and the call at stage 1
SearchCalled ==
    /\ impl = NewImpl
    /\ by_student = NewMatching(n_students, n_options).by_student
    /\ by_option = NewMatching(n_students, n_options).by_option
    /\ student_locked = NewMatching(n_students, n_options).student_locked
    /\ call = NoCall
    /\ raised = "none"
    /\ stack = <<>>
    /\ ctl = Ctl("call", 1, NoResult, <<>>)
    /\ scored = [by |-> "none"]
    /\ returned = NoReturn
    /\ driver = NewDriver
    /\ pc_main = "search"

\* the arguments of a run of the search: any capacity bounds that the
\* counts can satisfy, and a new Matching
InitSearch(maxN, maxK, maxC, maxCap) ==
    /\ Inputs(maxN, maxK, maxC)
    /\ max_per_option \in 1 .. maxCap
    /\ min_per_option \in 0 .. max_per_option
    /\ n_options * min_per_option <= n_students
    /\ n_students <= n_options * max_per_option
    /\ SearchCalled

Init == InitSearch(MaxStudents, MaxOptions, MaxChoices, MaxCap)

Next ==
    \/ StageEntry
    \/ TrimAndRecurse
    \/ BaseCase
    \/ AfterRecursion
    \/ StageExit
    \/ MainInstall

Spec == Init /\ [][Next]_vars

\* the same search on inputs one student and one option larger
InitWide ==
    InitSearch(MaxStudents + 1, MaxOptions + 1, MaxChoices, MaxCap)

SpecWide == InitWide /\ [][Next]_vars

---------------------------------------------------------------------------
(* Properties of the staged search (Spec, SpecWide) *)

SearchReturned == ctl.pc = "ret" /\ stack = <<>>

\* the number of pairs of the returned list that name option o
Occupancy(pairs, o) == Cardinality({i \in DOMAIN pairs : pairs[i][2] = o})

\* C1: on inputs with n_options*min_per_option <= n_students <=
\* n_options*max_per_option, the pair list that the call at stage 1
\* returns holds every student exactly once, and every option is paired
\* with at least min_per_option and at most max_per_option students.
C1_CompleteAndFeasible ==
    SearchReturned =>
        /\ \A s \in Students :
              Cardinality({i \in DOMAIN ctl.val.pairs :
                              ctl.val.pairs[i][1] = s}) = 1
        /\ \A i \in DOMAIN ctl.val.pairs :
              /\ ctl.val.pairs[i][1] \in Students
              /\ ctl.val.pairs[i][2] \in Options
        /\ \A o \in Options :
              /\ min_per_option <= Occupancy(ctl.val.pairs, o)
              /\ Occupancy(ctl.val.pairs, o) <= max_per_option

\* the search returned after a student was trimmed from the first choice
\* and placed, unhappy, in an option that needed a student
C1_Witness ==
    /\ SearchReturned
    /\ min_per_option >= 1
    /\ \E i \in DOMAIN ctl.val.pairs :
          \A r \in 1 .. n_choices :
              choices[ctl.val.pairs[i][1]][r] # ctl.val.pairs[i][2]

\* every complete assignment that respects the capacity bounds
FeasibleAssignments ==
    {f \in [Students -> Options] :
        \A o \in Options :
            /\ min_per_option <= Cardinality({s \in Students : f[s] = o})
            /\ Cardinality({s \in Students : f[s] = o}) <= max_per_option}

\* the lexicographic maximum of the score over all of them
OracleBest ==
    CHOOSE v \in {VectorOf(f) : f \in FeasibleAssignments} :
        \A f \in FeasibleAssignments : ~TupleGreater(VectorOf(f), v)

\* C2: the score that the staged search returns is the lexicographic
\* maximum of the score over all complete assignments that hold between
\* min_per_option and max_per_option students in every option.
C2_ScoreIsOptimal ==
    SearchReturned => ctl.val.score = OracleBest

\* C3: when a call of recursive_assignment_algorithm (at any stage) or of
\* assignment_algorithm_base_case returns, by_student, by_option and
\* student_locked are what they were when the call was made.
C3_StateRestored ==
    ctl.pc = "ret" => Match = ctl.entry

\* a call of the base case returned to the stage that made it: that stage
\* holds locked students, and the student that the base case had placed in
\* an option is unmatched again
C3_Witness ==
    /\ ctl.pc = "ret"
    /\ ctl.stage > n_choices
    /\ stack # <<>>
    /\ ctl.val # NoResult
    /\ \E s, t \in Students :
          /\ student_locked[s]
          /\ by_student[t] = None
          /\ \E i \in DOMAIN ctl.val.pairs : ctl.val.pairs[i][1] = t
    /\ Match = ctl.entry

---------------------------------------------------------------------------
(* The queries of the Matching of AssignStudentsNew.py, applied to any     *)
(* Matching that its operations can build: the two maps agree, and any     *)
(* student may be locked (SpecQueries)                                     *)

InitQueries ==
    /\ n_students \in 1 .. MaxStudents
    /\ n_options \in 1 .. MaxOptions
    /\ NoInputs
    /\ impl = NewImpl
    /\ by_student \in [1 .. n_students -> 0 .. n_options]
    /\ by_option = ByOptionOf(by_student, n_options)
    /\ student_locked \in [1 .. n_students -> BOOLEAN]
    /\ call = NoCall
    /\ raised = "none"
    /\ Idle

Queried(by, option, threshold, r) ==
    /\ returned' = [by |-> by, option |-> option, threshold |-> threshold,
                    raised |-> r.raised, val |-> r.val]
    /\ UNCHANGED <<inputVars, impl, matchVars, call, raised, stack, ctl,
                   scored, driver, pc_main>>

ListUnderfilledOptions ==
    \E threshold \in 0 .. (MaxCap + 1) :
        Queried("list_underfilled_options", None, threshold,
                [raised |-> "none",
                 val |-> list_underfilled_options(Match, threshold)])

MakeTrimIterable ==
    \E option \in Options, threshold \in 0 .. MaxCap :
        Queried("make_trim_iterable", option, threshold,
                make_trim_iterable(Match, option, threshold))

NextQueries ==
    \/ ListUnderfilledOptions
    \/ MakeTrimIterable

SpecQueries == InitQueries /\ [][NextQueries]_vars

---------------------------------------------------------------------------
(* Properties of the queries (SpecQueries) *)

\* how often x occurs in a list
Occurrences(list, x) == Cardinality({i \in DOMAIN list : list[i] = x})

\* the students that option o lacks to hold threshold students
Lacking(o, threshold) ==
    IF Cardinality(by_option[o]) < threshold
    THEN threshold - Cardinality(by_option[o])
    ELSE 0

\* the students that the options 1 .. k lack together
RECURSIVE TotalLacking(_, _)
TotalLacking(k, threshold) ==
    IF k = 0 THEN 0
    ELSE Lacking(k, threshold) + TotalLacking(k - 1, threshold)

\* C14: the list that list_underfilled_options(min) returns holds every
\* option with count < min exactly (min - count) times and no option with
\* count >= min, so its length is the number of students still needed to
\* bring every option up to min.
C14_UnderfilledList ==
    returned.by = "list_underfilled_options" =>
        /\ \A i \in DOMAIN returned.val : returned.val[i] \in Options
        /\ \A o \in Options :
              Occurrences(returned.val, o) = Lacking(o, returned.threshold)
        /\ Len(returned.val) = TotalLacking(n_options, returned.threshold)

\* one option lacks two students and is listed twice, another holds enough
\* and is not listed
C14_Witness ==
    /\ returned.by = "list_underfilled_options"
    /\ \E o, q \in Options :
          /\ Occurrences(returned.val, o) = 2
          /\ Cardinality(by_option[q]) >= returned.threshold
          /\ Occurrences(returned.val, q) = 0
          /\ returned.threshold >= 1

\* C19: for an option that holds n > max students, make_trim_iterable
\* yields every combination of exactly (n - max) of the unlocked students
\* of the option, each combination once; no locked student is in any
\* combination, and removing a combination leaves exactly max students.
C19_TrimCombinations ==
    (/\ returned.by = "make_trim_iterable"
     /\ Cardinality(by_option[returned.option]) > returned.threshold) =>
        LET at == by_option[returned.option]
            n == Cardinality(at)
            unlocked == {s \in at : ~student_locked[s]}
            yielded == returned.val
        IN  /\ returned.raised = "none"
            /\ {Group(yielded[i]) : i \in DOMAIN yielded}
                  = {g \in SUBSET unlocked :
                        Cardinality(g) = n - returned.threshold}
            /\ \A i, j \in DOMAIN yielded :
                  i # j => Group(yielded[i]) # Group(yielded[j])
            /\ \A i \in DOMAIN yielded :
                  /\ Len(yielded[i]) = n - returned.threshold
                  /\ Cardinality(Group(yielded[i])) = n - returned.threshold
                  /\ \A s \in Group(yielded[i]) : ~student_locked[s]
                  /\ Cardinality(at \ Group(yielded[i])) = returned.threshold

\* an overfilled option with a locked student, and a combination to remove
C19_Witness ==
    /\ returned.by = "make_trim_iterable"
    /\ Cardinality(by_option[returned.option]) > returned.threshold
    /\ \E s \in by_option[returned.option] : student_locked[s]
    /\ Len(returned.val) >= 1

---------------------------------------------------------------------------
(* Properties of a run of the staged search (Spec) *)

\* C16: on an input that passes the capacity validation, a run of the
\* staged search never violates a precondition of the Matching: no assign
\* of a matched or locked student, no erase of an unmatched or locked
\* student, no lock of a locked student, no unlock of an unlocked student
\* and no reduce_to_pairs of an incomplete assignment.  Each of these is an
\* assert of the Matching.
C16_NoPreconditionViolated ==
    raised # "AssertionError"

\* a whole run: stages, trims, locks, base case, unlocks and the result
\* installed by main()
C16_Witness ==
    /\ ctl.pc = "done"
    /\ raised = "none"
    /\ \A s \in Students : by_student[s] # None /\ ~student_locked[s]
    /\ n_choices >= 1
    /\ \E i \in DOMAIN ctl.val.pairs :
          choices[ctl.val.pairs[i][1]][1] # ctl.val.pairs[i][2]

C18_CapacityAtRecursion ==
    ctl.pc = "call" =>
        \A o \in Options : Cardinality(by_option[o]) <= max_per_option

\* a frame trimmed an overfilled option down to max_per_option and is about
\* to make the deeper call
C18_Witness ==
    /\ ctl.pc = "call"
    /\ stack # <<>>
    /\ Top.saved_pairs # <<>>
    /\ \E o \in Options :
          /\ Cardinality(by_option[o]) = max_per_option
          /\ \E i \in DOMAIN Top.saved_pairs : Top.saved_pairs[i][2] = o

\* C20: when a call made inside a stage frame raises (a deeper stage or
\* the base case), the frames' cleanup still runs: by_student, by_option
\* and student_locked end up as the outermost frame received them.
C20_CleanupOnFailure ==
    [][(ctl.pc = "call" /\ stack # <<>> /\ ctl'.pc = "raised") =>
          /\ by_student' = stack[1].entry.by_student
          /\ by_option' = stack[1].entry.by_option
          /\ student_locked' = stack[1].entry.student_locked]_vars

---------------------------------------------------------------------------
(* The scenarios of the specification, run through the staged search.      *)
(* Scenario B and scenario D fit the inputs of SpecWide.  Scenario A has 4  *)
(* students, 4 options and 4 choices: SpecScenarios adds its inputs to     *)
(* those of SpecWide.                                                      *)

\* scenario A: no two students name the same option at the same rank
NoConflicts(chs) ==
    \A s, t \in DOMAIN chs :
        s # t => \A r \in DOMAIN chs[s] : chs[s][r] # chs[t][r]

InitScenarioA ==
    /\ n_students = 4
    /\ n_options = 4
    /\ n_choices = 4
    /\ choices \in {chs \in [1 .. 4 -> ChoiceLists(4, 4)] : NoConflicts(chs)}
    /\ high_priority \in [1 .. 4 -> BOOLEAN]
    /\ min_per_option = 1
    /\ max_per_option = 1
    /\ SearchCalled

InitScenarios == InitWide \/ InitScenarioA

SpecScenarios == InitScenarios /\ [][Next]_vars

\* the options of the returned pair list hold these numbers of students
ReturnedOccupancy(o) == Occupancy(ctl.val.pairs, o)

ScenarioB ==
    /\ n_students = 3
    /\ n_options = 2
    /\ n_choices = 2
    /\ min_per_option = 1
    /\ max_per_option = 2
    /\ \A s \in Students : choices[s] = <<1, 2>>

\* C11: scenario B (2 options X and Y, min 1, max 2, 3 students who all
\* rank X first and Y second): the staged search returns a score that
\* starts 3, 2, 1, with two students in X and one in Y.
C11_ScenarioB ==
    ScenarioB =>
        /\ ctl.pc # "raised"
        /\ SearchReturned =>
              /\ ctl.val.score[1] = 3
              /\ ctl.val.score[2] = 2
              /\ ctl.val.score[3] = 1
              /\ ReturnedOccupancy(1) = 2
              /\ ReturnedOccupancy(2) = 1

\* option z is on no student's choice list
Unlisted(z) ==
    \A s \in Students : \A r \in 1 .. n_choices : choices[s][r] # z

Listed(s, o) == \E r \in 1 .. n_choices : choices[s][r] = o

\* scenario D: min_per_option is 1, exactly one option z is unlisted, every
\* student can get a listed choice within max_per_option, and moving one
\* student to z gives an assignment within min and max
ScenarioD(z) ==
    /\ min_per_option = 1
    /\ \A o \in Options : Unlisted(o) <=> o = z
    /\ \E f \in [Students -> Options] :
          /\ \A s \in Students : Listed(s, f[s])
          /\ \A o \in Options :
                Cardinality({s \in Students : f[s] = o}) <= max_per_option
    /\ \E f \in FeasibleAssignments :
          /\ Cardinality({s \in Students : f[s] = z}) = 1
          /\ \A s \in Students : f[s] # z => Listed(s, f[s])

\* C12: scenario D: the staged search completes and returns an assignment
\* in which exactly one student is unhappy and holds the unlisted option,
\* with a happy count one below the number of students (all of whom could
\* get a listed choice).
C12_ScenarioD ==
    \A z \in Options :
        ScenarioD(z) =>
            /\ ctl.pc # "raised"
            /\ SearchReturned =>
                  /\ ctl.val.score[1] = n_students - 1
                  /\ ReturnedOccupancy(z) = 1
                  /\ \A i \in DOMAIN ctl.val.pairs :
                        ~Listed(ctl.val.pairs[i][1], ctl.val.pairs[i][2])
                            => ctl.val.pairs[i][2] = z

ScenarioA ==
    /\ n_students = 4
    /\ n_options = 4
    /\ n_choices = 4
    /\ min_per_option = 1
    /\ max_per_option = 1
    /\ NoConflicts(choices)

\* C13: scenario A (4 options, min 1, max 1, 4 students who rank all 4
\* options without conflicts): the staged search returns a score with
\* happy count 4 and every rank bucket 1, and the returned pairs are a
\* perfect matching of the students and the options.
C13_ScenarioA ==
    ScenarioA =>
        /\ ctl.pc # "raised"
        /\ SearchReturned =>
              /\ ctl.val.score[1] = 4
              /\ \A r \in 1 .. 4 : ctl.val.score[1 + r] = 1
              /\ Len(ctl.val.pairs) = 4
              /\ \A o \in Options : ReturnedOccupancy(o) = 1

---------------------------------------------------------------------------
(* The brute-force driver, AssignStudents.py lines 142-169, with the       *)
(* generator MatchingsIterator.all_permitted_matchings of                  *)
(* AlgorithmUtilities.py as a machine (SpecBrute).  A frame of the stack   *)
(* is one active call _iter_recurse(index); ctl.pc is "round" before a     *)
(* call of all_permitted_matchings, "combo" at the head of its loop over   *)
(* the combinations, "enter" when _iter_recurse starts, "pick" at the head *)
(* of its loop over the picks, "return" when it has ended, "leaf" at the   *)
(* head of the loop over the permutations, "yielded" at the yield (the     *)
(* body of the driver's for loop runs), "resume" after it, "exhausted"     *)
(* after the for loop, "stopped" after the break and "raised" when an      *)
(* exception left the script.  ctl.order is the order of the students in   *)
(* the choices file (the key order of the dict choices); the students are  *)
(* numbered in the order of sorted(choices.keys()).  ctl.yielded lists     *)
(* what the current call of all_permitted_matchings has yielded so far.    *)

\* Matching.underfilled(limit)
underfilled(m, limit) ==
    {o \in DOMAIN m.by_option : Cardinality(m.by_option[o]) < limit}

\* Matching.obeys_max_per_option with an option given
obeys_max_per_option(m, max, option) ==
    Cardinality(m.by_option[option]) <= max

\* Matching.as_tuples: frozenset(self.by_student.items())
as_tuples(m) == {<<s, m.by_student[s]>> : s \in DOMAIN m.by_student}

\* the list pool without its i-th element
Without(pool, i) ==
    SubSeq(pool, 1, i - 1) \o SubSeq(pool, i + 1, Len(pool))

\* the tuples of permutations(pool) that start with pool[i], pool[i+1], ...
RECURSIVE permutations_from(_, _)
\* itertools.permutations(pool), in the order of the positions in pool
RECURSIVE permutations(_)
permutations_from(pool, i) ==
    IF i > Len(pool) THEN <<>>
    ELSE LET rest == permutations(Without(pool, i))
         IN  [j \in 1 .. Len(rest) |-> <<pool[i]>> \o rest[j]]
                 \o permutations_from(pool, i + 1)

permutations(pool) ==
    IF pool = <<>> THEN <<<<>>>> ELSE permutations_from(pool, 1)

\* for n, e in zip(perm, self.match.underfilled()): self.match.add_pair(n, e)
RECURSIVE zip_add_pair(_, _, _)
zip_add_pair(m, perm, options) ==
    IF perm = <<>> \/ options = <<>> THEN Ok(m)
    ELSE LET r == add_pair(m, StudentName(Head(perm)),
                           OptionName(Head(options)))
         IN  IF r.raised # "none" THEN r
             ELSE zip_add_pair(r.m, Tail(perm), Tail(options))

\* for n, e in zip(perm, self.match.underfilled()):
\*     self.match.delete_pair(n, e)
RECURSIVE zip_delete_pair(_, _, _)
zip_delete_pair(m, perm, options) ==
    IF perm = <<>> \/ options = <<>> THEN Ok(m)
    ELSE LET r == delete_pair(m, StudentName(Head(perm)),
                              OptionName(Head(options)))
         IN  IF r.raised # "none" THEN r
             ELSE zip_delete_pair(r.m, Tail(perm), Tail(options))

\* best_matches = None, best_score = None
NoBest == [found |-> FALSE, matches |-> {}, score |-> <<>>]

\* the loop body that starts a new set of best matches and leaves it empty
loop_body_forgets_first(best, match, score) ==
    IF ~best.found \/ TupleGreater(score, best.score)
    THEN [found |-> TRUE, matches |-> {}, score |-> score]
    ELSE IF score = best.score
    THEN [best EXCEPT !.matches = @ \cup {as_tuples(match)}]
    ELSE best

\* lines 159-164: the body of the driver's for loop after the scoring
loop_body(best, match, score) ==
    IF ~best.found \/ TupleGreater(score, best.score)
    THEN [found |-> TRUE, matches |-> {as_tuples(match)}, score |-> score]
    ELSE IF score = best.score
    THEN [best EXCEPT !.matches = @ \cup {as_tuples(match)}]
    ELSE best

\* the script's constants N_OPTIONS and N_CHOICES are set to the counts of
\* the input; its sanity checks on the number of students have passed
InitBrute ==
    /\ Inputs(MaxStudents, MaxOptions, MaxChoices)
    /\ min_per_option = MIN_PER_OPTION
    /\ max_per_option = MAX_PER_OPTION
    /\ n_options * MIN_PER_OPTION <= n_students
    /\ n_options * MAX_PER_OPTION >= n_students
    /\ impl = OldImpl
    /\ by_student = NewMatching(n_students, n_options).by_student
    /\ by_option = NewMatching(n_students, n_options).by_option
    /\ student_locked = NewMatching(n_students, n_options).student_locked
    /\ call = NoCall
    /\ raised = "none"
    /\ stack = <<>>
    /\ \E order \in Shuffles(InOrder(Students)) :
          ctl = [pc |-> "round", order |-> order, n_unhappy_students |-> 1,
                 combos |-> <<>>, unhappy |-> <<>>, perms |-> <<>>,
                 perm |-> <<>>, best |-> NoBest, yielded |-> <<>>]
    /\ scored = [by |-> "none"]
    /\ returned = NoReturn
    /\ driver = OldDriver
    /\ pc_main = "search"

bruteFrame == <<inputVars, impl, call, scored, returned, driver, pc_main>>

Unhappy == {ctl.unhappy[i] : i \in DOMAIN ctl.unhappy}

BruteRaised(m, e) ==
    /\ SetMatch(m)
    /\ raised' = e
    /\ stack' = <<>>
    /\ ctl' = [ctl EXCEPT !.pc = "raised"]

\* all_permitted_matchings(n_unhappy) up to its loop: a new Matching
AllPermittedMatchings ==
    /\ ctl.pc = "round"
    /\ SetMatch(NewMatching(n_students, n_options))
    /\ ctl' = [ctl EXCEPT !.pc = "combo",
                          !.combos = combinations(ctl.order,
                                                  ctl.n_unhappy_students),
                          !.yielded = <<>>]
    /\ UNCHANGED <<raised, stack, bruteFrame>>

\* the next combination becomes the set self.unhappy, which yields its
\* students in an order of its own; _iter_recurse() is called
NextCombination ==
    /\ ctl.pc = "combo"
    /\ IF ctl.combos = <<>>
       THEN /\ ctl' = [ctl EXCEPT !.pc = "exhausted"]
            /\ UNCHANGED stack
       ELSE /\ \E unhappy \in Shuffles(Head(ctl.combos)) :
                  ctl' = [ctl EXCEPT !.pc = "enter",
                                     !.combos = Tail(@),
                                     !.unhappy = unhappy]
            /\ stack' = <<[index |-> 0, pick |-> 0]>>
    /\ UNCHANGED <<matchVars, raised, bruteFrame>>

\* _iter_recurse(index) up to its first loop
IterRecurse ==
    /\ ctl.pc = "enter"
    /\ IF Top.index = n_students
       THEN /\ ctl' = [ctl EXCEPT !.pc = "leaf",
                                  !.perms = permutations(ctl.unhappy)]
            /\ UNCHANGED stack
       ELSE IF (Top.index + 1) \in Unhappy
       THEN /\ stack' = Append(stack, [index |-> Top.index + 1, pick |-> 0])
            /\ UNCHANGED ctl
       ELSE /\ ctl' = [ctl EXCEPT !.pc = "pick"]
            /\ UNCHANGED stack
    /\ UNCHANGED <<matchVars, raised, bruteFrame>>

\* the loop over the picks of a happy student: add_pair, and either the
\* recursive call or, beyond 2 students, delete_pair at once
TryPick ==
    /\ ctl.pc = "pick"
    /\ LET name == Top.index + 1
           j == Top.pick + 1
       IN  IF j > n_choices
           THEN /\ stack' = Pop
                /\ ctl' = [ctl EXCEPT !.pc = "return"]
                /\ UNCHANGED <<matchVars, raised>>
           ELSE LET pick == choices[name][j]
                    a == add_pair(Match, StudentName(name), OptionName(pick))
                    d == delete_pair(a.m, StudentName(name), OptionName(pick))
                IN  IF a.raised # "none" THEN BruteRaised(a.m, a.raised)
                    ELSE IF obeys_max_per_option(a.m, 2, pick)
                    THEN /\ SetMatch(a.m)
                         /\ stack' = Append(
                               [stack EXCEPT ![Len(stack)].pick = j],
                               [index |-> name, pick |-> 0])
                         /\ ctl' = [ctl EXCEPT !.pc = "enter"]
                         /\ UNCHANGED raised
                    ELSE IF d.raised # "none" THEN BruteRaised(d.m, d.raised)
                    ELSE /\ SetMatch(d.m)
                         /\ stack' = [stack EXCEPT ![Len(stack)].pick = j]
                         /\ UNCHANGED <<ctl, raised>>
    /\ UNCHANGED bruteFrame

\* a call of _iter_recurse has ended: the caller goes on after its
\* "yield from", with delete_pair when its student is a happy one
IterReturn ==
    /\ ctl.pc = "return"
    /\ IF stack = <<>>
       THEN /\ ctl' = [ctl EXCEPT !.pc = "combo"]
            /\ UNCHANGED <<matchVars, raised, stack>>
       ELSE IF (Top.index + 1) \in Unhappy
       THEN /\ stack' = Pop
            /\ UNCHANGED <<matchVars, raised, ctl>>
       ELSE LET name == Top.index + 1
                d == delete_pair(Match, StudentName(name),
                                 OptionName(choices[name][Top.pick]))
            IN  IF d.raised # "none" THEN BruteRaised(d.m, d.raised)
                ELSE /\ SetMatch(d.m)
                     /\ ctl' = [ctl EXCEPT !.pc = "pick"]
                     /\ UNCHANGED <<raised, stack>>
    /\ UNCHANGED bruteFrame

\* the next permutation of the unhappy students is zipped with the
\* underfilled options, which a new set yields in any order; then the yield
LeafFill ==
    /\ ctl.pc = "leaf"
    /\ IF ctl.perms = <<>>
       THEN /\ stack' = Pop
            /\ ctl' = [ctl EXCEPT !.pc = "return"]
            /\ UNCHANGED <<matchVars, raised>>
       ELSE \E options \in Shuffles(InOrder(underfilled(Match, 1))) :
               LET r == zip_add_pair(Match, Head(ctl.perms), options)
               IN  IF r.raised # "none" THEN BruteRaised(r.m, r.raised)
                   ELSE /\ SetMatch(r.m)
                        /\ ctl' = [ctl EXCEPT !.pc = "yielded",
                                              !.perm = Head(ctl.perms),
                                              !.perms = Tail(@)]
                        /\ UNCHANGED <<raised, stack>>
    /\ UNCHANGED bruteFrame

\* AssignStudents.py lines 157-164: the yielded match is scored and kept
\* when it is among the best
LoopBody ==
    /\ ctl.pc = "yielded"
    /\ LET score == calculate_score(Match, choices, high_priority, n_choices)
       IN  IF score.raised # "none" THEN BruteRaised(Match, score.raised)
           ELSE /\ ctl' = [ctl EXCEPT
                      !.pc = "resume",
                      !.best = loop_body(@, Match, score.val),
                      !.yielded = Append(@, [by_student |-> by_student,
                                             score |-> score.val])]
                /\ UNCHANGED <<matchVars, raised, stack>>
    /\ UNCHANGED bruteFrame

\* after the yield: the permutation is zipped with the options that are
\* underfilled now, and those pairs are deleted
LeafUnfill ==
    /\ ctl.pc = "resume"
    /\ \E options \in Shuffles(InOrder(underfilled(Match, 1))) :
          LET r == zip_delete_pair(Match, ctl.perm, options)
          IN  IF r.raised # "none" THEN BruteRaised(r.m, r.raised)
              ELSE /\ SetMatch(r.m)
                   /\ ctl' = [ctl EXCEPT !.pc = "leaf"]
                   /\ UNCHANGED <<raised, stack>>
    /\ UNCHANGED bruteFrame

\* lines 166-169: the next unhappy count, or the break.  Beyond n_students
\* unhappy students no call yields anything and the loop never ends; the
\* count stops there.
LoopEnd ==
    /\ ctl.pc = "exhausted"
    /\ IF ctl.best.found
       THEN ctl' = [ctl EXCEPT !.pc = "stopped"]
       ELSE /\ ctl.n_unhappy_students <= n_students
            /\ ctl' = [ctl EXCEPT !.pc = "round",
                                  !.n_unhappy_students = @ + 1]
    /\ UNCHANGED <<matchVars, raised, stack, bruteFrame>>

NextBrute ==
    \/ AllPermittedMatchings
    \/ NextCombination
    \/ IterRecurse
    \/ TryPick
    \/ IterReturn
    \/ LeafFill
    \/ LoopBody
    \/ LeafUnfill
    \/ LoopEnd

SpecBrute == InitBrute /\ [][NextBrute]_vars

---------------------------------------------------------------------------
(* Properties of the brute-force driver (SpecBrute) *)

\* the set of pairs of a by_student map
PairsOf(bs) == {<<s, bs[s]>> : s \in DOMAIN bs}

---------------------------------------------------------------------------
(* Properties of the base case of the staged search (Spec, SpecWide).  The *)
(* variable returned holds the locals of the last call of the base case.   *)

\* the base case has just returned or raised
BaseCaseLeft ==
    /\ returned.by = "assignment_algorithm_base_case"
    /\ \/ returned.raised # "none"
       \/ ctl.pc = "ret" /\ ctl.stage > n_choices

\* the evictions that the call needed were made (lines 303-311 are behind)
AfterEviction ==
    /\ BaseCaseLeft
    /\ Len(returned.evicted) >= Len(returned.underfilled) - returned.n_unhappy

\* the number of students that the scored assignment gives option o
Filled(o) ==
    Cardinality({s \in DOMAIN returned.filled : returned.filled[s] = o})

\* the number of students of option o just before the j-th headroom slot
\* was used
HeldBefore(o, j) ==
    Filled(o) - Cardinality({i \in j .. Len(returned.empty_spots) :
                               /\ i + Len(returned.underfilled)
                                      <= Len(returned.unhappy)
                               /\ returned.empty_spots[i] = o})

---------------------------------------------------------------------------
(* Properties of the eviction of the base case (SpecWide: the base case    *)
(* needs an eviction from three students and three options on)             *)

\* the call found fewer unhappy students than under-minimum slots
EvictionNeeded ==
    /\ BaseCaseLeft
    /\ returned.n_unhappy < Len(returned.underfilled)

\* the students that the call evicted
Evicted == {returned.evicted[i][1] : i \in DOMAIN returned.evicted}

\* the Matching that the call received, as far as get_match reads it
Received == [by_student |-> returned.entry]

\* the number of students that option o held when the call began
Held(o) ==
    Cardinality({s \in DOMAIN returned.entry : returned.entry[s] = o})

\* C22: the base case evicts exactly (under-minimum slots - unhappy
\* students) students, none when the unhappy students cover the slots, and
\* each evicted student was assigned when erase removed the pairing (erase
\* refuses a locked student, so an eviction made is one of an unlocked
\* student).
C22_Evictions ==
    BaseCaseLeft =>
        /\ Len(returned.evicted)
               = (IF returned.n_unhappy < Len(returned.underfilled)
                  THEN Len(returned.underfilled) - returned.n_unhappy
                  ELSE 0)
        /\ \A i, j \in DOMAIN returned.evicted :
               i # j => returned.evicted[i][1] # returned.evicted[j][1]
        /\ \A i \in DOMAIN returned.evicted :
               /\ returned.evicted[i][2] \in Options
               /\ returned.entry[returned.evicted[i][1]]
                      = returned.evicted[i][2]

\* C23: a base case that has to evict makes its evictions, and it evicts a
\* high-priority student from an option only if it evicts every student of
\* that option who has no priority.
C23_PriorityEvictedLast ==
    EvictionNeeded =>
        /\ AfterEviction
        /\ \A i \in DOMAIN returned.evicted :
               high_priority[returned.evicted[i][1]] =>
                   \A s \in Students :
                       (/\ returned.entry[s] = returned.evicted[i][2]
                        /\ ~high_priority[s]) => s \in Evicted

\* the tiers that lines 361-368 can give: within an option the students are
\* numbered from 1 in the order of a shuffle sorted by happiness ascending
\* and then by priority descending (both sorts stable)
Tiers ==
    {t \in [{s \in Students : returned.entry[s] # None} -> 1 .. n_students] :
        \A s1, s2 \in DOMAIN t :
            (s1 # s2 /\ returned.entry[s1] = returned.entry[s2]) =>
                /\ t[s1] # t[s2]
                /\ t[s1] <= Held(returned.entry[s1])
                /\ (high_priority[s1] /\ ~high_priority[s2]) => t[s1] < t[s2]
                /\ (/\ high_priority[s1] = high_priority[s2]
                    /\ happiness(Received, choices, n_choices, s1)
                          < happiness(Received, choices, n_choices, s2))
                       => t[s1] < t[s2]}

\* C24: a call of find_more_unhappy_students returns a queue that holds
\* exactly the students of nonzero happiness, each once, by tier descending
\* and, within a tier, by happiness descending.
C24_EvictionQueue ==
    (BaseCaseLeft /\ returned.queue.called) =>
        /\ returned.queue.raised = "none"
        /\ {returned.queue.val[i] : i \in DOMAIN returned.queue.val}
               = {s \in Students :
                     happiness(Received, choices, n_choices, s) > 0}
        /\ \A i, j \in DOMAIN returned.queue.val :
               i # j => returned.queue.val[i] # returned.queue.val[j]
        /\ \E t \in Tiers :
               \A i, j \in DOMAIN returned.queue.val :
                   i < j =>
                       LET a == returned.queue.val[i]
                           b == returned.queue.val[j]
                       IN  \/ t[a] > t[b]
                           \/ /\ t[a] = t[b]
                              /\ happiness(Received, choices, n_choices, a)
                                   >= happiness(Received, choices, n_choices, b)

\* C29: a base case that has to evict scores and returns a complete
\* assignment in which every option that held at least min_per_option
\* students before the eviction still holds that many.
C29_MinimumKept ==
    EvictionNeeded =>
        /\ returned.raised = "none"
        /\ \A s \in Students : returned.filled[s] \in Options
        /\ \A o \in Options :
               Held(o) >= min_per_option => Filled(o) >= min_per_option

---------------------------------------------------------------------------
(* Properties of the unhappy count and of the generator (SpecBrute) *)

\* the options that are on no student's choice list
ZeroVotes == {z \in Options : Unlisted(z)}

\* C25: the driver starts with the unhappy count u at the number of options
\* on no choice list; u changes only at the end of a pass over
\* all_permitted_matchings(u) that found no matching, and then by one; and a
\* pass that found one ends the search.
C25_UnhappyCount ==
    /\ ctl.n_unhappy_students = Cardinality(ZeroVotes)
    /\ [][/\ ctl'.n_unhappy_students # ctl.n_unhappy_students =>
               /\ ctl.pc = "exhausted"
               /\ ~ctl.best.found
               /\ ctl'.n_unhappy_students = ctl.n_unhappy_students + 1
          /\ (ctl.pc = "exhausted" /\ ctl.best.found) =>
               ctl'.pc = "stopped"]_vars

\* C26: every matching that all_permitted_matchings(u) yields is complete
\* and within the capacities: each of the u unhappy students is on an
\* option that the other students left under its minimum, every other
\* student is on an option of their own list, and every option holds
\* between min_per_option and max_per_option students.
C26_YieldedFeasible ==
    ctl.pc = "yielded" =>
        /\ \A s \in Students : by_student[s] \in Options
        /\ \A s \in Unhappy :
               Cardinality(by_option[by_student[s]] \ Unhappy)
                   < min_per_option
        /\ \A s \in Students \ Unhappy : Listed(s, by_student[s])
        /\ \A o \in Options :
               /\ Cardinality(by_option[o]) <= max_per_option
               /\ Cardinality(by_option[o]) >= min_per_option

\* C30: add_pair and delete_pair never raise during the enumeration, and
\* the deletions after a yield remove exactly the pairs that were added for
\* the unhappy students before it: the unhappy students are unmatched again
\* and no other student's pair has changed.
C30_LeafRestores ==
    [][/\ ctl.pc \in {"pick", "return", "leaf", "resume"} =>
              ctl'.pc # "raised"
       /\ ctl.pc = "resume" =>
              by_student' = [s \in Students |->
                                IF s \in Unhappy THEN None
                                ELSE by_student[s]]]_vars

---------------------------------------------------------------------------
(* Termination of the staged search (Spec) *)

\* where the call at nesting level i stands: 3 about to start, 2 active,
\* 1 just returned, 0 not called or over
Phase(i) ==
    IF i <= Len(stack) THEN 2
    ELSE IF i = Len(stack) + 1 /\ ctl.pc = "call" THEN 3
    ELSE IF i = Len(stack) + 1 /\ ctl.pc = "ret" THEN 1
    ELSE 0

\* the trims that the call at nesting level i has still to try
TrimsLeft(i) ==
    IF i <= Len(stack) THEN Cardinality(stack[i].todo) ELSE 0

\* phase and trims left of the levels 1 .. n_choices + 1, outermost first
Variant ==
    [x \in 1 .. 2 * (n_choices + 1) |->
        IF x % 2 = 1 THEN Phase((x + 1) \div 2) ELSE TrimsLeft(x \div 2)]

\* C27: the staged search terminates: every step makes Variant, a tuple of
\* 2 * (n_choices + 1) naturals, smaller in the lexicographic order, so no
\* run has infinitely many steps.  The i-th nested call is the call at
\* stage i, a call about to start is at the stage after that of its caller,
\* so never more than n_choices stage calls are nested, and the base case
\* is called, and returns, below the call at stage n_choices only.
C27_Terminates ==
    /\ [](/\ Len(stack) <= n_choices
          /\ \A i \in DOMAIN stack : stack[i].stage = i
          /\ ctl.pc = "call" => ctl.stage = Len(stack) + 1
          /\ (ctl.pc = "ret" /\ ctl.stage > n_choices) =>
                 Len(stack) = n_choices)
    /\ [][TupleGreater(Variant, Variant')]_vars

\* the base case has returned to the call at stage n_choices
C27_Witness ==
    /\ ctl.pc = "ret"
    /\ ctl.stage > n_choices
    /\ Len(stack) = n_choices
    /\ ctl.val # NoResult

---------------------------------------------------------------------------
(* The score and the shuffles of the base case *)

\* the Matching that a call at stage + 1 receives when trim t is taken
AfterTrim(m, t) ==
    lock_all_matched(
        erase_trimmed(m, trim_students(t, InOrder(DOMAIN t)), <<>>).m).m

\* the greatest tuple of a set of scores, None when there is none
Best(scores) ==
    IF scores = {} THEN <<>>
    ELSE CHOOSE x \in scores : \A y \in scores : ~TupleGreater(y, x)

\* a score for the call at a stage that is computed from the input without
\* a shuffle: the students that the base case places count for nothing,
\* and a stage keeps the greatest score of its trims
RECURSIVE ShuffleFreeScore(_, _)
ShuffleFreeScore(m, stage) ==
    IF stage > n_choices
    THEN score_assignment(m, choices, high_priority, n_choices)
    ELSE LET a == assign_stage_choices(m, choices, stage, 1, <<>>)
             p == trim_product(a.m, max_per_option)
         IN  Best({ShuffleFreeScore(AfterTrim(a.m, t), stage + 1) :
                      t \in p.val} \ {<<>>})

\* C31: the score that the staged search returns does not depend on the
\* shuffles: the score of a base case is the score of the Matching that it
\* received, whatever slots the shuffles gave the unhappy students, and the
\* score that the search returns is the one computed from the input without
\* a shuffle.
C31_ScoreIgnoresShuffles ==
    /\ (ctl.pc = "ret" /\ ctl.stage > n_choices) =>
           ctl.val.score = score_assignment(ctl.entry, choices,
                                            high_priority, n_choices)
    /\ SearchReturned =>
           ctl.val.score
               = ShuffleFreeScore(NewMatching(n_students, n_options), 1)

\* the search has returned a score, and the shuffles of its last base case
\* chose between slots of different options for an unhappy student
C31_Witness ==
    /\ SearchReturned
    /\ ctl.val.score # <<>>
    /\ returned.by = "assignment_algorithm_base_case"
    /\ returned.unhappy # <<>>
    /\ \/ \E i, j \in DOMAIN returned.empty_spots :
              returned.empty_spots[i] # returned.empty_spots[j]
       \/ \E i, j \in DOMAIN returned.underfilled :
              /\ returned.underfilled[i] # returned.underfilled[j]
              /\ Len(returned.unhappy) >= 2

===========================================================================
